---- MODULE Spec2Model ----
(***************************************************************************)
(* Memory store, preference upsert and message handling of the spa         *)
(* assistant (src/temp.py).                                                *)
(*                                                                         *)
(* The vector store (mem.pine_client.index) is modelled as a mapping from  *)
(* record id to metadata.  The embedding vector of a record is not kept:   *)
(* it only decides the similarity order of a query, and that order is      *)
(* taken to be arbitrary.  A text is a sequence of tokens; a word token is *)
(* separated from the token before it by one blank and a punctuation token *)
(* is attached to the token before it.                                     *)
(***************************************************************************)
EXTENDS Integers, Sequences, FiniteSets, TLC

\* ---------------------------------------------------------------- bounds
MaxRecords == 3      \* the store is not grown beyond this many records
MaxTime == 2         \* the clock stops advancing at this second
MaxMsgLen == 4       \* longest message, in tokens, given to store_memory
MaxCalls == 4        \* store_user_preference calls started by the threads
MaxPrefKeys == 11    \* distinct preference keys one user may write
MaxKeys == 3         \* most Gemini API keys configured
MaxDays == 2         \* largest days_ahead given to get_available_time_slots

\* ------------------------------------------------------- Python values
\* Python None where a string is expected
None == "<None>"

\* the empty dict, and additional_metadata = None
NoMetadata == [k \in {} |-> None]

Min(a, b) == IF a <= b THEN a ELSE b

\* dict.update: the entries of upd win over those of base
DictUpdate(base, upd) ==
    [k \in DOMAIN base \cup DOMAIN upd |->
        IF k \in DOMAIN upd THEN upd[k] ELSE base[k]]

\* a value of additional_metadata: its Python type and its str()
PyValue(kind, val) == [kind |-> kind, val |-> val]

MEMORY_TYPES ==
    [INTERACTION |-> "interaction", FAQ |-> "faq", BOOKING |-> "booking",
     PREFERENCE |-> "preference", SERVICE_INTEREST |-> "service_interest"]

\* ------------------------------------------------------------ texts
Words == {"what", "explain", "spa"}
Punctuation == {"?", "."}
Tokens == Words \cup Punctuation

\* every text of at most n tokens
Texts(n) == UNION {[1..k -> Tokens] : k \in 0..n}

\* number of consecutive word tokens right after position i: (?:\s+\w+)*
RECURSIVE WordRun(_, _)
WordRun(text, i) ==
    IF i + 1 <= Len(text) /\ text[i + 1] \in Words
    THEN 1 + WordRun(text, i + 1)
    ELSE 0

\* the smallest member of a non-empty set of positions
First(S) == CHOOSE i \in S : \A j \in S : i <= j

\* positions where the question-word pattern matches
QuestionWordStarts(text) ==
    {i \in 1..Len(text) :
        /\ text[i] = "what"
        /\ WordRun(text, i) >= 2
        /\ i + WordRun(text, i) + 1 <= Len(text)
        /\ text[i + WordRun(text, i) + 1] = "?"}

\* positions where the "tell me about|explain|describe" pattern matches
LeadInStarts(text) ==
    {i \in 1..Len(text) : text[i] = "explain" /\ WordRun(text, i) >= 2}

QuestionMarks(text) == {i \in 1..Len(text) : text[i] = "?"}

\* re.findall(pattern, text)[0].strip() for the first pattern that matches;
\* the empty text stands for the result None (no match is ever empty)
extract_question(text) ==
    IF QuestionWordStarts(text) # {}
    THEN LET i == First(QuestionWordStarts(text))
         IN  SubSeq(text, i, i + WordRun(text, i) + 1)
    ELSE IF LeadInStarts(text) # {}
    THEN LET i == First(LeadInStarts(text))
             e == i + WordRun(text, i)
         IN  IF e + 1 <= Len(text) /\ text[e + 1] = "?"
             THEN SubSeq(text, i, e + 1)
             ELSE SubSeq(text, i, e)
    ELSE IF QuestionMarks(text) # {}
    THEN LET p == First(QuestionMarks(text))
             before == {j \in 1..(p - 1) : text[j] \in Punctuation}
             s == IF before = {} THEN 1
                  ELSE 1 + (CHOOSE j \in before : \A k \in before : k <= j)
         IN  SubSeq(text, s, p)
    ELSE <<>>

\* -------------------------------------- extract_and_store_preferences
LikeWords == {"like", "prefer", "favorite", "enjoy"}
DayWords == {"monday"}
TimeWords == {"morning", "afternoon", "evening"}

\* re.search(pattern, message).group(1) for each pattern of time_patterns
\* that matches, with its key, in the order of the list
PreferredDay(message) ==
    LET at == {i \in 1..(Len(message) - 1) :
                  message[i] = "prefer" /\ message[i + 1] \in DayWords}
    IN  IF at = {} THEN <<>> ELSE <<<<"preferred_day", message[First(at) + 1]>>>>

PreferredTime(message) ==
    LET at == {i \in 1..(Len(message) - 1) :
                  message[i] = "prefer" /\ message[i + 1] \in TimeWords}
    IN  IF at = {} THEN <<>> ELSE <<<<"preferred_time", message[First(at) + 1]>>>>

BetterTime(message) ==
    LET at == {i \in 1..(Len(message) - 2) :
                  /\ message[i] \in TimeWords
                  /\ message[i + 1] = "is"
                  /\ message[i + 2] = "better"}
    IN  IF at = {} THEN <<>> ELSE <<<<"preferred_time", message[First(at)]>>>>

\* the services of the list named in the message, as preferred_service calls
RECURSIVE PreferredServices(_, _)
PreferredServices(message, services) ==
    IF services = <<>> THEN <<>>
    ELSE (IF /\ \E i \in 1..Len(message) : message[i] = Head(services)
             /\ \E i \in 1..Len(message) : message[i] \in LikeWords
          THEN <<<<"preferred_service", Head(services)>>>>
          ELSE <<>>) \o PreferredServices(message, Tail(services))

\* the store_user_preference calls of one thread, in order
PreferenceCalls(message, services) ==
    PreferredServices(message, services) \o PreferredDay(message)
        \o PreferredTime(message) \o BetterTime(message)

\* ------------------------------------------------------------ state
VARIABLES
    index,    \* the vector store: record id -> metadata
    uuids,    \* number of uuid4() values drawn so far
    clock,    \* int(time.time())
    last,     \* the call that finished last: operation, arguments, outcome
    latest    \* per (user_id, key): the value of the last preference written

storeVars == <<index, uuids, clock, last, latest>>

\* ------------------------------------------------------ vector store
\* index.upsert([(id, vector, metadata)]): insert, or replace the record id
\* as Upsert, in a store that keeps the last record only
Upsert_KeepsLast(idx, id, metadata) == [i \in {id} |-> metadata]

Upsert(idx, id, metadata) ==
    [i \in DOMAIN idx \cup {id} |-> IF i = id THEN metadata ELSE idx[i]]

Eq(v) == [op |-> "$eq", val |-> v]
In(vs) == [op |-> "$in", val |-> vs]

\* a record passes a filter when every filtered field is present and fits
Passes(metadata, filter) ==
    \A f \in DOMAIN filter :
        /\ f \in DOMAIN metadata
        /\ IF filter[f].op = "$eq"
           THEN metadata[f] = filter[f].val
           ELSE metadata[f] \in filter[f].val

Match(idx, id) == [id |-> id, metadata |-> idx[id]]

\* index.query(top_k, filter): the matches of one answer, as a set; any
\* top_k records that pass the filter may be the ones returned
\* as QuerySets, with every passing record in the answer
QuerySets_NoLimit(idx, filter, top_k) ==
    {{Match(idx, i) : i \in {j \in DOMAIN idx : Passes(idx[j], filter)}}}

QuerySets(idx, filter, top_k) ==
    LET passing == {Match(idx, i) : i \in {j \in DOMAIN idx : Passes(idx[j], filter)}}
    IN  {S \in SUBSET passing : Cardinality(S) = Min(top_k, Cardinality(passing))}

\* the orders in which the store may list the matches of one answer
Orders(S) ==
    {s \in [1..Cardinality(S) -> S] :
        \A i, j \in 1..Cardinality(S) : i # j => s[i] # s[j]}

\* metadata.get('timestamp', 0)
TimestampOf(match) ==
    IF "timestamp" \in DOMAIN match.metadata THEN match.metadata.timestamp ELSE 0

\* ---------------------------------------------------------- outcomes
\* what is kept of a call when it ends: its arguments, whether it returned
\* or raised, the matches its query got, the value it returned, the ids it
\* upserted and the records that stood under these ids before
Outcome(op, user_id, args, raises, matches, ret, upserted) ==
    [op |-> op, user_id |-> user_id, args |-> args,
     status |-> IF raises THEN "raised" ELSE "ok",
     matches |-> IF raises THEN {} ELSE matches,
     ret |-> IF raises THEN <<>> ELSE ret,
     upserted |-> upserted,
     replaced |-> {Match(index, i) : i \in upserted \cap DOMAIN index}]

\* ------------------------------------------------------- store_memory
\* as Sanitize, with None left as it is
Sanitize_NoneKept(value) ==
    IF value.kind \in {"none", "str", "int", "float", "bool", "list_str"} THEN value
    ELSE PyValue("str", value.val)

\* the value persisted for one value of additional_metadata
Sanitize(value) ==
    IF value.kind = "none" THEN PyValue("str", "None")
    ELSE IF value.kind \in {"str", "int", "float", "bool", "list_str"} THEN value
    ELSE PyValue("str", value.val)

SanitizedMetadata(additional_metadata) ==
    [k \in DOMAIN additional_metadata |-> Sanitize(additional_metadata[k])]

\* metadata.update(sanitized_metadata): a key of additional_metadata that
\* is also a key of the record takes the place of the record's value (a
\* string there is kept as the plain string it is)
MemoryMetadata(user_id, message, response, timestamp, memory_type, additional_metadata) ==
    LET base == [user_id |-> user_id, message |-> message, response |-> response,
                 timestamp |-> timestamp, type |-> memory_type]
        extra == SanitizedMetadata(additional_metadata)
    IN  DictUpdate(base, [k \in DOMAIN extra |->
                             IF k \in DOMAIN base THEN extra[k].val ELSE extra[k]])

FaqEntryMetadata(user_id, question, response, timestamp) ==
    [user_id |-> user_id, question |-> question, answer |-> response,
     timestamp |-> timestamp, type |-> "faq_entry"]

\* as WritesFaqEntry, with the type test only
WritesFaqEntry_AnyMessage(message, memory_type) == memory_type = MEMORY_TYPES.FAQ

\* as WritesFaqEntry, for no type
WritesFaqEntry_Never(message, memory_type) == FALSE

\* whether store_memory also writes the faq_entry record
WritesFaqEntry(message, memory_type) ==
    memory_type = MEMORY_TYPES.FAQ /\ extract_question(message) # <<>>

\* the store after a store_memory call that ran to its end
StoredMemory(idx, n, user_id, message, response, timestamp, memory_type, additional_metadata) ==
    LET first == Upsert(idx, <<user_id, "", n + 1>>,
                        MemoryMetadata(user_id, message, response, timestamp,
                                       memory_type, additional_metadata))
    IN  IF WritesFaqEntry(message, memory_type)
        THEN Upsert(first, <<user_id, "faq", n + 2>>,
                    FaqEntryMetadata(user_id, extract_question(message), response, timestamp))
        ELSE first

\* raises: "no" (returns), "first" (get_embedding or upsert of the record
\* fails), "faq_entry" (get_embedding or upsert of the faq_entry fails)
StoreMemory(user_id, message, given, memory_type, additional_metadata, raises) ==
    LET response == IF given = None THEN "No response generated" ELSE given
        second == WritesFaqEntry(message, memory_type)
        wanted == IF second THEN 2 ELSE 1
        whole == StoredMemory(index, uuids, user_id, message, response, clock,
                              memory_type, additional_metadata)
        partial == Upsert(index, <<user_id, "", uuids + 1>>,
                          MemoryMetadata(user_id, message, response, clock,
                                         memory_type, additional_metadata))
    IN  /\ Cardinality(DOMAIN index) + wanted <= MaxRecords
        /\ raises = "faq_entry" => second
        /\ index' = CASE raises = "no" -> whole
                      [] raises = "first" -> index
                      [] raises = "faq_entry" -> partial
        /\ uuids' = CASE raises = "no" -> uuids + wanted
                      [] raises = "first" -> uuids
                      [] raises = "faq_entry" -> uuids + 1
        /\ last' = Outcome("store_memory", user_id,
                           [message |-> message, response |-> given,
                            memory_type |-> memory_type,
                            additional_metadata |-> additional_metadata],
                           raises # "no", {}, <<>>,
                           CASE raises = "no" ->
                                    {<<user_id, "", uuids + 1>>} \cup
                                    (IF second THEN {<<user_id, "faq", uuids + 2>>} ELSE {})
                             [] raises = "first" -> {}
                             [] raises = "faq_entry" -> {<<user_id, "", uuids + 1>>})
        /\ UNCHANGED <<clock, latest>>

\* ------------------------------------------------------------ reads
\* memory_types: None, one type, or a list of types
NoTypes == [kind |-> "none", val |-> {}]
OneType(t) == [kind |-> "str", val |-> {t}]
TypeList(ts) == [kind |-> "list", val |-> ts]

\* Python truth of a memory_types argument: None, "" and [] are false
TypesGiven(memory_types) ==
    memory_types.kind # "none" /\ memory_types.val # {} /\ memory_types.val # {""}

RecallFilter(user_id, memory_types) ==
    IF ~TypesGiven(memory_types)
    THEN [user_id |-> Eq(user_id)]
    ELSE IF memory_types.kind = "list"
    THEN [user_id |-> Eq(user_id), type |-> In(memory_types.val)]
    ELSE [user_id |-> Eq(user_id),
          type |-> Eq(CHOOSE t \in memory_types.val : TRUE)]

RecallSemanticMemory(user_id, top_k, memory_types) ==
    /\ \E S \in QuerySets(index, RecallFilter(user_id, memory_types), top_k) :
       \E matches \in Orders(S) :
          last' = Outcome("recall_semantic_memory", user_id,
                          [top_k |-> top_k, memory_types |-> memory_types],
                          FALSE, S, matches, {})
    /\ UNCHANGED <<index, uuids, clock, latest>>

\* as SortedNewestFirst, without the sort
SortedNewestFirst_Unsorted(matches) == matches

\* sorted(matches, key=timestamp, reverse=True): descending, and stable
RECURSIVE SortedNewestFirst(_)
SortedNewestFirst(matches) ==
    IF matches = <<>> THEN <<>>
    ELSE LET sorted == SortedNewestFirst(SubSeq(matches, 1, Len(matches) - 1))
             x == matches[Len(matches)]
             ahead == {i \in 1..Len(sorted) : TimestampOf(sorted[i]) >= TimestampOf(x)}
             k == Cardinality(ahead)
         IN  SubSeq(sorted, 1, k) \o <<x>> \o SubSeq(sorted, k + 1, Len(sorted))

\* sequence[:n]
Prefix(sequence, n) == SubSeq(sequence, 1, Min(n, Len(sequence)))

HistoryFilter(user_id) ==
    [user_id |-> Eq(user_id), type |-> Eq(MEMORY_TYPES.INTERACTION)]

\* the possible results of get_conversation_history on a store
ConversationHistories(idx, user_id, limit) ==
    {Prefix(SortedNewestFirst(matches), limit) :
        matches \in UNION {Orders(S) : S \in QuerySets(idx, HistoryFilter(user_id), limit * 2)}}

GetConversationHistory(user_id, limit) ==
    /\ \E S \in QuerySets(index, HistoryFilter(user_id), limit * 2) :
       \E matches \in Orders(S) :
          last' = Outcome("get_conversation_history", user_id, [limit |-> limit],
                          FALSE, S, Prefix(SortedNewestFirst(matches), limit), {})
    /\ UNCHANGED <<index, uuids, clock, latest>>

FaqFilter(user_id) == [user_id |-> Eq(user_id), type |-> Eq("faq_entry")]

GetUserFaqs(user_id, limit) ==
    /\ \E S \in QuerySets(index, FaqFilter(user_id), limit) :
       \E matches \in Orders(S) :
          last' = Outcome("get_user_faqs", user_id, [limit |-> limit],
                          FALSE, S, matches, {})
    /\ UNCHANGED <<index, uuids, clock, latest>>

PreferencesTopK == 10

PreferencesFilter(user_id) ==
    [user_id |-> Eq(user_id), type |-> Eq(MEMORY_TYPES.PREFERENCE)]

\* the dicts the loop over the matches can build: a later match replaces the
\* entry of an earlier one with the same key, and the store may list the
\* matches in any order, so each key ends with the value of any of its matches
FoldPreferences(S) ==
    LET usable == {m \in S : /\ "preference_key" \in DOMAIN m.metadata
                             /\ "preference_value" \in DOMAIN m.metadata}
        keys == {m.metadata.preference_key : m \in usable}
        values == {m.metadata.preference_value : m \in usable}
    IN  {prefs \in [keys -> values] :
            \A k \in keys : \E m \in usable :
                /\ m.metadata.preference_key = k
                /\ m.metadata.preference_value = prefs[k]}

GetUserPreferences(user_id) ==
    /\ \E S \in QuerySets(index, PreferencesFilter(user_id), PreferencesTopK) :
       \E preferences \in FoldPreferences(S) :
          last' = Outcome("get_user_preferences", user_id, [limit |-> PreferencesTopK],
                          FALSE, S, preferences, {})
    /\ UNCHANGED <<index, uuids, clock, latest>>

\* ---------------------------------------------- store_user_preference
\* as PreferenceFilter, without the user_id condition
PreferenceFilter_AnyUser(user_id, key) ==
    [type |-> Eq(MEMORY_TYPES.PREFERENCE), preference_key |-> Eq(key)]

\* as PreferenceFilter, for any key of the user
PreferenceFilter_AnyKey(user_id, key) ==
    [user_id |-> Eq(user_id), type |-> Eq(MEMORY_TYPES.PREFERENCE)]

PreferenceFilter(user_id, key) ==
    [user_id |-> Eq(user_id), type |-> Eq(MEMORY_TYPES.PREFERENCE),
     preference_key |-> Eq(key)]

PreferenceMetadata(user_id, key, value, timestamp) ==
    [user_id |-> user_id, preference_key |-> key, preference_value |-> value,
     timestamp |-> timestamp, type |-> MEMORY_TYPES.PREFERENCE]

\* as PreferenceId, with the id of the user's first memory
PreferenceId_FirstMemory(S, user_id, n) == <<user_id, "", 1>>

\* as PreferenceId, but the match is not used: every call takes a new id
PreferenceId_AlwaysNew(S, user_id, n) == <<user_id, "pref", n + 1>>

\* the id upserted: that of the match when there is one, else a new id
PreferenceId(S, user_id, n) ==
    IF S # {} THEN (CHOOSE m \in S : TRUE).id ELSE <<user_id, "pref", n + 1>>

\* one call with nothing running between its query and its upsert
StoreUserPreference(user_id, key, value, raises) ==
    /\ \E S \in QuerySets(index, PreferenceFilter(user_id, key), 1) :
          /\ S = {} /\ ~raises => Cardinality(DOMAIN index) < MaxRecords
          /\ index' = IF raises THEN index
                      ELSE Upsert(index, PreferenceId(S, user_id, uuids),
                                  PreferenceMetadata(user_id, key, value, clock))
          /\ uuids' = IF S = {} /\ ~raises THEN uuids + 1 ELSE uuids
          /\ last' = Outcome("store_user_preference", user_id,
                             [key |-> key, value |-> value], raises, S, <<>>,
                             IF raises THEN {} ELSE {PreferenceId(S, user_id, uuids)})
    /\ latest' = IF raises THEN latest ELSE [latest EXCEPT ![<<user_id, key>>] = value]
    /\ UNCHANGED clock

\* ------------------------------------------------------------- clock
Tick ==
    /\ clock < MaxTime
    /\ clock' = clock + 1
    /\ UNCHANGED <<index, uuids, last, latest>>

\* ------------------------------------------------- preference threads
VARIABLES
    workers,  \* the extract_and_store_preferences threads
    spawned   \* number of threads started so far

workerVars == <<workers, spawned>>

\* ------------------------------------------------------- chat session
VARIABLES
    said,     \* the message at hand
    pm,       \* the frame of process_message
    chat      \* where the loop of chat() stands

chatVars == <<said, pm, chat>>

\* ------------------------------------------- providers and helpers
VARIABLES
    gemini,   \* gemini_api_keys (their number), current_key_index,
              \* current_model_index, and whether model is not None
    result    \* the outcome of the last call of a helper function

auxVars == <<gemini, result>>

vars == <<index, uuids, clock, last, latest, workers, spawned, said, pm, chat,
          gemini, result>>

\* ---------------------------------------------------- generate_content
GEMINI_MODELS == 7

\* get_gemini_model: the indices after the call, and whether it returned
\* (gemini_api_keys[current_key_index] raises IndexError without keys)
get_gemini_model(g) ==
    LET n == IF g.key_index >= g.keys
             THEN [g EXCEPT !.key_index = 0,
                            !.model_index = (g.model_index + 1) % GEMINI_MODELS]
             ELSE g
    IN  [g |-> n, ok |-> n.key_index < n.keys]

\* as rotate_gemini_key, without the call of get_gemini_model that wraps
rotate_gemini_key_NoWrap(g) == [g |-> [g EXCEPT !.key_index = g.key_index + 1], ok |-> TRUE]

rotate_gemini_key(g) == get_gemini_model([g EXCEPT !.key_index = g.key_index + 1])

try_next_model(g) ==
    get_gemini_model([g EXCEPT !.model_index = (g.model_index + 1) % GEMINI_MODELS])

\* the module after import: lines 126-128 and 257-262
ImportGemini(keys) ==
    LET got == get_gemini_model([keys |-> keys, key_index |-> 0, model_index |-> 0,
                                 model |-> FALSE])
    IN  [got.g EXCEPT !.model = got.ok]

\* as max_key_retries, without the number of keys
max_key_retries_NoMin(g) == 3

max_key_retries(g) == Min(3, g.keys)
\* as max_model_retries, with a round for every model
max_model_retries_AllModels == GEMINI_MODELS

max_model_retries == Min(3, GEMINI_MODELS)

\* one Gemini attempt as the log lines of 235 and 237 see it: the model the
\* attempt runs on, the model GEMINI_MODELS[current_model_index] names, the
\* key index, and whether a key or a model was indexed out of range
Attempt(model_retry, key_retry, used, g, oob) ==
    [model_retry |-> model_retry, key_retry |-> key_retry, used |-> used,
     named |-> g.model_index, key_index |-> g.key_index, oob |-> oob]

Logged(entry, run) == [run EXCEPT !.log = <<entry>> \o @]

\* the loops of lines 225-252 from attempt number `attempt` on; succeeds is
\* the set of attempts at which Gemini would answer. The module's model of
\* line 258 was made for GEMINI_MODELS[0]
RECURSIVE GeminiLoop(_, _, _, _, _)
GeminiLoop(g, model_retry, key_retry, attempt, succeeds) ==
    IF model_retry >= max_model_retries
    THEN [g |-> g, status |-> "apology", attempt |-> 0, tried |-> attempt - 1,
          log |-> <<>>]
    ELSE IF key_retry >= max_key_retries(g)
    THEN GeminiLoop(g, model_retry + 1, 0, attempt, succeeds)
    ELSE LET first == model_retry = 0 /\ key_retry = 0 /\ g.model
             got == IF first THEN [g |-> g, ok |-> TRUE] ELSE get_gemini_model(g)
             entry == Attempt(model_retry, key_retry,
                              IF first THEN 0 ELSE got.g.model_index, got.g, ~got.ok)
         IN  IF got.ok /\ attempt \in succeeds
             THEN [g |-> got.g, status |-> "text", attempt |-> attempt,
                   tried |-> attempt, log |-> <<entry>>]
             ELSE IF key_retry < max_key_retries(g) - 1
             THEN LET r == rotate_gemini_key(got.g)
                  IN  IF r.ok
                      THEN Logged(entry, GeminiLoop(r.g, model_retry, key_retry + 1,
                                                    attempt + 1, succeeds))
                      ELSE [g |-> r.g, status |-> "raised", attempt |-> 0,
                            tried |-> attempt, log |-> <<entry>>]
             ELSE IF model_retry < max_model_retries - 1
             THEN LET r == try_next_model(got.g)
                  IN  IF r.ok
                      THEN Logged(entry, GeminiLoop(r.g, model_retry + 1, 0,
                                                    attempt + 1, succeeds))
                      ELSE [g |-> r.g, status |-> "raised", attempt |-> 0,
                            tried |-> attempt, log |-> <<entry>>]
             ELSE Logged(entry, GeminiLoop(got.g, model_retry, key_retry + 1,
                                           attempt + 1, succeeds))

\* as generate_content, with Gemini asked before Grok's text is returned
generate_content_GeminiFirst(g, grok, succeeds) ==
    LET run == GeminiLoop(g, 0, 0, 1, succeeds)
    IN  [g |-> run.g, status |-> IF grok = "text" THEN "text" ELSE run.status,
         provider |-> IF grok = "text" THEN "grok"
                      ELSE IF run.status = "text" THEN "gemini" ELSE "none",
         attempt |-> run.attempt, tried |-> run.tried,
         grok_tried |-> IF grok = "absent" THEN 0 ELSE 1, log |-> run.log]

\* grok: "absent" (no key), "failed" (generate_with_grok raises), "empty"
\* (it returns ""), "text"
generate_content(g, grok, succeeds) ==
    IF grok = "text"
    THEN [g |-> g, status |-> "text", provider |-> "grok", attempt |-> 0, tried |-> 0,
          grok_tried |-> 1, log |-> <<>>]
    ELSE LET run == GeminiLoop(g, 0, 0, 1, succeeds)
         IN  [g |-> run.g, status |-> run.status,
              provider |-> IF run.status = "text" THEN "gemini" ELSE "none",
              attempt |-> run.attempt, tried |-> run.tried,
              grok_tried |-> IF grok = "absent" THEN 0 ELSE 1, log |-> run.log]

\* ------------------------------------------------------ the Agno agent
\* get_agno_agent: gemini_api_keys[current_key_index] and
\* GEMINI_MODELS[current_model_index] are indexed as they stand; builds says
\* whether Agent(model=Gemini(..)) is constructed without an exception
get_agno_agent(g, builds) ==
    LET inside == g.key_index < g.keys /\ g.model_index < GEMINI_MODELS
    IN  [ok |-> inside /\ builds, oob |-> ~inside]

Noted(oob, run) == [run EXCEPT !.oob = @ \/ oob]

\* the loops of lines 340-357 from agent number `attempt` on; broken is the
\* set of agents whose construction fails; raise last_error ends them
RECURSIVE AgnoLoop(_, _, _, _, _)
AgnoLoop(g, model_retry, key_retry, attempt, broken) ==
    IF model_retry >= max_model_retries
    THEN [g |-> g, status |-> "raised", tried |-> attempt - 1, oob |-> FALSE]
    ELSE IF key_retry >= max_key_retries(g)
    THEN AgnoLoop(g, model_retry + 1, 0, attempt, broken)
    ELSE LET made == get_agno_agent(g, attempt \notin broken)
         IN  IF made.ok
             THEN [g |-> g, status |-> "agent", tried |-> attempt, oob |-> FALSE]
             ELSE IF key_retry < max_key_retries(g) - 1
             THEN LET r == rotate_gemini_key(g)
                  IN  IF r.ok
                      THEN Noted(made.oob, AgnoLoop(r.g, model_retry, key_retry + 1,
                                                    attempt + 1, broken))
                      ELSE [g |-> r.g, status |-> "raised", tried |-> attempt,
                            oob |-> TRUE]
             ELSE IF model_retry < max_model_retries - 1
             THEN LET r == try_next_model(g)
                  IN  IF r.ok
                      THEN Noted(made.oob, AgnoLoop(r.g, model_retry + 1, 0,
                                                    attempt + 1, broken))
                      ELSE [g |-> r.g, status |-> "raised", tried |-> attempt,
                            oob |-> TRUE]
             ELSE Noted(made.oob, AgnoLoop(g, model_retry, key_retry + 1,
                                           attempt + 1, broken))

get_agno_agent_with_retry(g, broken) == AgnoLoop(g, 0, 0, 1, broken)

\* --------------------------------------------- handle_booking_with_agno
\* as booking_max_retries, without the number of keys
booking_max_retries_NoMin(g) == 2

\* max_retries of line 1515
booking_max_retries(g) == Min(2, g.keys)

\* what handle_booking_with_agno returns: the sentence of 1441 and 1557, the
\* text of Grok, the reply of the agent, the sentence of 1553, or None when
\* the function ends without a return statement
BookingReturns == {"sorry", "grok", "reply", "fallback", "none"}

\* the loop of lines 1516-1553 from retry number `retry` on, after `made`
\* agents were constructed and `asked` calls of print_response were made;
\* replies[n] is what the n-th call of print_response gives: "text", "none"
\* (None) or "failed" (an exception)
RECURSIVE BookingLoop(_, _, _, _, _, _)
BookingLoop(g, retry, made, asked, broken, replies) ==
    IF retry >= booking_max_retries(g)
    THEN [g |-> g, ret |-> "none", agent_tried |-> asked, oob |-> FALSE]
    ELSE LET r == IF retry > 0 THEN rotate_gemini_key(g) ELSE [g |-> g, ok |-> TRUE]
             agent == IF retry > 0 /\ r.ok
                      THEN get_agno_agent(r.g, (made + 1) \notin broken)
                      ELSE [ok |-> r.ok, oob |-> ~r.ok]
             n == IF agent.ok THEN asked + 1 ELSE asked
             reply == IF agent.ok /\ n \in DOMAIN replies THEN replies[n] ELSE "failed"
         IN  IF agent.ok /\ reply = "text"
             THEN [g |-> r.g, ret |-> "reply", agent_tried |-> n, oob |-> agent.oob]
             ELSE IF retry < booking_max_retries(g) - 1
             THEN Noted(agent.oob,
                        BookingLoop(r.g, retry + 1, IF retry > 0 THEN made + 1 ELSE made,
                                    n, broken, replies))
             ELSE [g |-> r.g, ret |-> "fallback", agent_tried |-> n, oob |-> agent.oob]

\* lines 1372-1557; tools: SQLTools(db_url) is built. Every statement stands
\* in a try whose handler returns the sentence of 1557
handle_booking_with_agno(g, tools, grok, broken, replies) ==
    LET a == get_agno_agent_with_retry(g, broken)
        loop == BookingLoop(a.g, 0, a.tried, 0, broken, replies)
        grok_tried == IF grok = "absent" THEN 0 ELSE 1
    IN  IF ~tools
        THEN [g |-> g, ret |-> "sorry", grok_tried |-> 0, agent_tried |-> 0,
              oob |-> FALSE]
        ELSE IF a.status = "raised"
        THEN [g |-> a.g, ret |-> "sorry", grok_tried |-> 0, agent_tried |-> 0,
              oob |-> a.oob]
        ELSE IF grok = "text"
        THEN [g |-> a.g, ret |-> "grok", grok_tried |-> 1, agent_tried |-> 0,
              oob |-> a.oob]
        ELSE [g |-> loop.g, ret |-> loop.ret, grok_tried |-> grok_tried,
              agent_tried |-> loop.agent_tried, oob |-> a.oob \/ loop.oob]

NoResult == [op |-> "none"]

AuxInit ==
    /\ gemini = ImportGemini(1)
    /\ result = NoResult

\* ------------------------------------------- the memory store, in turn
Users == {"u1", "u2"}
PreferenceKeys == {"preferred_time", "preferred_day"}
PreferenceValues == {"morning", "evening"}
WorkerIds == {"t1", "t2"}

\* the names a preference key may have
KeyNames == <<"preferred_time", "preferred_day", "preferred_service", "k4", "k5",
              "k6", "k7", "k8", "k9", "k10", "k11", "k12", "k13">>

NoCall == [op |-> "none", user_id |-> None, args |-> <<>>, status |-> "ok",
           matches |-> {}, ret |-> <<>>, upserted |-> {}, replaced |-> {}]

NoPreferenceCall ==
    [key |-> None, value |-> None, id |-> <<>>, found |-> FALSE, raced |-> FALSE]

Idle == [pc |-> "idle", user_id |-> None, todo |-> <<>>, matches |-> {},
         call |-> NoPreferenceCall]

\* no message is being handled
NoFrame ==
    [pc |-> "none", intents |-> {}, service_entities |-> <<>>, todo |-> <<>>,
     response_text |-> None, ret |-> [kind |-> "none", response |-> None],
     start |-> 0]

StoreInit ==
    /\ index = [i \in {} |-> NoMetadata]
    /\ uuids = 0
    /\ clock = 1
    /\ last = NoCall
    /\ latest = [p \in Users \X {KeyNames[i] : i \in DOMAIN KeyNames} |-> None]

WorkerInit ==
    /\ workers = [t \in WorkerIds |-> Idle]
    /\ spawned = 0

Init ==
    /\ StoreInit
    /\ WorkerInit
    /\ said = <<>>
    /\ pm = NoFrame
    /\ chat = "prompt"
    /\ AuxInit

ApiStoreMemory ==
    /\ \E user_id \in Users, memory_type \in {MEMORY_TYPES.INTERACTION, MEMORY_TYPES.FAQ},
          raises \in {"no", "first", "faq_entry"} :
           StoreMemory(user_id, <<"spa", "?">>, "reply", memory_type, NoMetadata, raises)
    /\ UNCHANGED <<workerVars, chatVars, auxVars>>

ApiStoreUserPreference ==
    /\ \E user_id \in Users, key \in PreferenceKeys, value \in PreferenceValues,
          raises \in BOOLEAN :
           StoreUserPreference(user_id, key, value, raises)
    /\ UNCHANGED <<workerVars, chatVars, auxVars>>

\* the writes of the memory store, called one after the other
Next ==
    \/ ApiStoreMemory
    \/ ApiStoreUserPreference

Spec == Init /\ [][Next]_vars

\* the ids of the preference records of one user and key
PreferenceRecords(user_id, key) ==
    {i \in DOMAIN index :
        /\ index[i].user_id = user_id
        /\ index[i].type = "preference"
        /\ "preference_key" \in DOMAIN index[i]
        /\ index[i].preference_key = key}

\* C1: after store_user_preference calls that run one after the other, every
\* (user_id, key) that was written has exactly one preference record, and
\* the record holds the value of the latest call that wrote the key
C1_UpdateInPlace ==
    \A user_id \in Users, key \in PreferenceKeys :
        latest[<<user_id, key>>] # None =>
            \E i \in DOMAIN index :
                /\ PreferenceRecords(user_id, key) = {i}
                /\ index[i].preference_value = latest[<<user_id, key>>]

\* a key written a second time, with another value than the one stored
C1_Witness ==
    /\ last.op = "store_user_preference"
    /\ last.status = "ok"
    /\ \E m \in last.matches : m.metadata.preference_value # last.args.value
    /\ Cardinality(DOMAIN index) >= 2


\* --------------------------------------- the memory store, read back
TypeFilters == {NoTypes, OneType(MEMORY_TYPES.INTERACTION),
                TypeList({MEMORY_TYPES.FAQ, "faq_entry"}), TypeList({})}

\* the user who reads, and the limits and top_k values passed
Readers == {"u1"}
Limits == {0, 1, 2}

ReadStoreMemory ==
    /\ \E user_id \in Users, memory_type \in {MEMORY_TYPES.INTERACTION, MEMORY_TYPES.FAQ} :
           StoreMemory(user_id, <<"spa", "?">>, "reply", memory_type, NoMetadata, "no")
    /\ UNCHANGED <<workerVars, chatVars, auxVars>>

ReadStoreUserPreference ==
    /\ \E user_id \in Users :
           StoreUserPreference(user_id, "preferred_time", "morning", FALSE)
    /\ UNCHANGED <<workerVars, chatVars, auxVars>>

ReadTick == Tick /\ UNCHANGED <<workerVars, chatVars, auxVars>>

ReadRecallSemanticMemory ==
    /\ \E user_id \in Readers, top_k \in Limits \ {0}, memory_types \in TypeFilters :
           RecallSemanticMemory(user_id, top_k, memory_types)
    /\ UNCHANGED <<workerVars, chatVars, auxVars>>

ReadGetConversationHistory ==
    /\ \E user_id \in Readers, limit \in Limits :
           GetConversationHistory(user_id, limit)
    /\ UNCHANGED <<workerVars, chatVars, auxVars>>

ReadGetUserFaqs ==
    /\ \E user_id \in Readers, limit \in Limits \ {0} : GetUserFaqs(user_id, limit)
    /\ UNCHANGED <<workerVars, chatVars, auxVars>>

ReadGetUserPreferences ==
    /\ \E user_id \in Readers : GetUserPreferences(user_id)
    /\ UNCHANGED <<workerVars, chatVars, auxVars>>

NextRead ==
    \/ ReadStoreMemory
    \/ ReadStoreUserPreference
    \/ ReadTick
    \/ ReadRecallSemanticMemory
    \/ ReadGetConversationHistory
    \/ ReadGetUserFaqs
    \/ ReadGetUserPreferences

SpecRead == Init /\ [][NextRead]_vars


ReadOps == {"recall_semantic_memory", "get_conversation_history", "get_user_faqs",
            "get_user_preferences"}

\* C4: a read for user u gets from the store, and returns, only records whose
\* user_id is u, and the lookup of store_user_preference(u, ..) finds, and
\* its upsert replaces, only a record whose user_id is u
C4_ReadsFilterByUser ==
    last.op \in ReadOps \cup {"store_user_preference"} =>
        /\ \A m \in last.matches : m.metadata.user_id = last.user_id
        /\ \A m \in last.replaced : m.metadata.user_id = last.user_id
        /\ last.op \in ReadOps \ {"get_user_preferences"} =>
               \A i \in DOMAIN last.ret : last.ret[i].metadata.user_id = last.user_id

\* u1 writes a preference again while u2 holds one for the same key
C4_Witness ==
    /\ last.op = "store_user_preference"
    /\ last.user_id = "u1"
    /\ last.replaced # {}
    /\ \E i \in DOMAIN index :
           /\ index[i].user_id = "u2"
           /\ index[i].type = "preference"
           /\ index[i].preference_key = last.args.key

\* C5: get_conversation_history(user_id, limit) returns at most limit
\* records, all of type interaction, newest first (no timestamp counts as 0)
C5_HistoryNewestFirst ==
    last.op = "get_conversation_history" /\ last.status = "ok" =>
        /\ Len(last.ret) <= last.args.limit
        /\ \A i \in DOMAIN last.ret : last.ret[i].metadata.type = "interaction"
        /\ \A i, j \in DOMAIN last.ret :
               i < j => TimestampOf(last.ret[i]) >= TimestampOf(last.ret[j])

\* two of three interactions of different seconds are returned, in order
C5_Witness ==
    /\ last.op = "get_conversation_history"
    /\ last.args.limit = 2
    /\ Len(last.ret) = 2
    /\ Cardinality({i \in DOMAIN index : index[i].user_id = last.user_id
                                          /\ index[i].type = "interaction"}) = 3
    /\ TimestampOf(last.ret[1]) > TimestampOf(last.ret[2])


\* ------------------------------------------ preference threads at work
\* threading.Thread(target=extract_and_store_preferences, ...).start():
\* the thread reads the services and finds the calls it will make
Spawn(t, user_id, message, services) ==
    /\ workers[t].pc \in {"idle", "done", "failed"}
    /\ spawned < MaxCalls
    /\ spawned' = spawned + 1
    /\ workers' = [workers EXCEPT ![t] =
           [pc |-> IF PreferenceCalls(message, services) = <<>> THEN "done" ELSE "running",
            user_id |-> user_id,
            todo |-> PreferenceCalls(message, services),
            matches |-> {},
            call |-> NoPreferenceCall]]
    /\ UNCHANGED storeVars

\* whether worker o is between the query and the upsert of a call for the
\* same user and key as the call of worker t, with another value
Racing(o, t, user_id, key, value) ==
    /\ o # t
    /\ workers[o].pc = "queried"
    /\ workers[o].user_id = user_id
    /\ workers[o].call.key = key
    /\ workers[o].call.value # value

\* store_user_preference, the query: lines 733-744
WorkerQuery(t) ==
    /\ workers[t].pc = "running"
    /\ LET user_id == workers[t].user_id
           key == Head(workers[t].todo)[1]
           value == Head(workers[t].todo)[2]
       IN  \E S \in QuerySets(index, PreferenceFilter(user_id, key), 1) :
              workers' = [o \in WorkerIds |->
                  IF o = t
                  THEN [workers[t] EXCEPT
                           !.pc = "queried",
                           !.matches = S,
                           !.call = [key |-> key, value |-> value, id |-> <<>>,
                                     found |-> S # {},
                                     raced |-> \E w \in WorkerIds :
                                                  Racing(w, t, user_id, key, value)]]
                  ELSE IF Racing(o, t, user_id, key, value)
                  THEN [workers[o] EXCEPT !.call.raced = TRUE]
                  ELSE workers[o]]
    /\ UNCHANGED <<storeVars, spawned>>

\* store_user_preference, the upsert: lines 745-774
WorkerUpsert(t) ==
    /\ workers[t].pc = "queried"
    /\ LET user_id == workers[t].user_id
           key == workers[t].call.key
           value == workers[t].call.value
           memory_id == PreferenceId(workers[t].matches, user_id, uuids)
       IN  /\ index' = Upsert(index, memory_id,
                              PreferenceMetadata(user_id, key, value, clock))
           /\ uuids' = IF workers[t].matches = {} THEN uuids + 1 ELSE uuids
           /\ latest' = [latest EXCEPT ![<<user_id, key>>] = value]
           /\ workers' = [workers EXCEPT
                  ![t].pc = IF Tail(workers[t].todo) = <<>> THEN "done" ELSE "running",
                  ![t].todo = Tail(workers[t].todo),
                  ![t].matches = {},
                  ![t].call.id = memory_id]
    /\ UNCHANGED <<clock, last, spawned>>

\* the calls left after an exception in a preferred_service call: the
\* handler of line 1341 ends the loop over the services
RECURSIVE AfterServices(_)
AfterServices(todo) ==
    IF todo = <<>> THEN <<>>
    ELSE IF Head(todo)[1] = "preferred_service" THEN AfterServices(Tail(todo))
    ELSE todo

\* the query, the embedding or the upsert of the call at hand raises: a
\* preferred_service call is inside the try of lines 1333-1342, an exception
\* of a later call ends the thread
WorkerFail(t) ==
    /\ workers[t].pc \in {"running", "queried"}
    /\ workers' = [workers EXCEPT ![t] =
           IF Head(workers[t].todo)[1] = "preferred_service"
           THEN [workers[t] EXCEPT
                    !.pc = IF AfterServices(workers[t].todo) = <<>>
                           THEN "done" ELSE "running",
                    !.todo = AfterServices(workers[t].todo),
                    !.matches = {}]
           ELSE [workers[t] EXCEPT !.pc = "failed", !.todo = <<>>, !.matches = {}]]
    /\ UNCHANGED <<storeVars, spawned>>

\* what the users say, and what the services table holds
PreferenceMessages ==
    {<<"prefer", "morning">>, <<"prefer", "evening">>, <<"prefer", "monday">>,
     <<"prefer", "massage">>,
     <<"prefer", "morning", "evening", "is", "better">>}
ServiceTables == {<<>>, <<"massage">>}

ConcSpawn ==
    /\ \E t \in WorkerIds, user_id \in Users, message \in PreferenceMessages,
          services \in ServiceTables :
           Spawn(t, user_id, message, services)
    /\ UNCHANGED <<chatVars, auxVars>>

ConcQuery == (\E t \in WorkerIds : WorkerQuery(t)) /\ UNCHANGED <<chatVars, auxVars>>

ConcUpsert == (\E t \in WorkerIds : WorkerUpsert(t)) /\ UNCHANGED <<chatVars, auxVars>>

NextConc ==
    \/ ConcSpawn
    \/ ConcQuery
    \/ ConcUpsert

SpecConc == Init /\ [][NextConc]_vars

\* C2: in every state, whatever the interleaving of the queries and upserts
\* of the preference threads, there is at most one preference record per
\* (user_id, preference_key)
C2_UniquePreference ==
    \A user_id \in Users, i \in DOMAIN KeyNames :
        Cardinality(PreferenceRecords(user_id, KeyNames[i])) <= 1


\* the id a call upserts, or has upserted, once its query found a record
TargetId(t) ==
    IF workers[t].pc = "queried"
    THEN (CHOOSE m \in workers[t].matches : TRUE).id
    ELSE workers[t].call.id

\* two calls for the same user and key, with different values, that ran
\* between each other's query and upsert and both found a record
RacedOnRecord(t1, t2) ==
    /\ t1 # t2
    /\ workers[t1].call.raced /\ workers[t2].call.raced
    /\ workers[t1].call.found /\ workers[t2].call.found
    /\ workers[t1].user_id = workers[t2].user_id
    /\ workers[t1].call.key = workers[t2].call.key
    /\ workers[t1].call.value # workers[t2].call.value

\* C3: two overlapping store_user_preference calls for the same (user_id,
\* key) that both find a record upsert the same id, and once both have
\* finished the key has exactly one record, with the value upserted last
C3_LostUpdate ==
    \A t1, t2 \in WorkerIds :
        RacedOnRecord(t1, t2) =>
            /\ TargetId(t1) = TargetId(t2)
            /\ workers[t1].pc # "queried" /\ workers[t2].pc # "queried" =>
                   /\ PreferenceRecords(workers[t1].user_id, workers[t1].call.key)
                          = {TargetId(t1)}
                   /\ index[TargetId(t1)].preference_value
                          = latest[<<workers[t1].user_id, workers[t1].call.key>>]


\* ------------------------------------ store_memory, for every message
InitFaq ==
    /\ StoreInit
    /\ WorkerInit
    /\ said \in Texts(MaxMsgLen)
    /\ pm = NoFrame
    /\ chat = "prompt"
    /\ AuxInit

FaqStoreMemory ==
    /\ \E memory_type \in {MEMORY_TYPES.FAQ, MEMORY_TYPES.INTERACTION},
          raises \in {"no", "faq_entry"} :
           StoreMemory("u1", said, "reply", memory_type, NoMetadata, raises)
    /\ UNCHANGED <<workerVars, chatVars, auxVars>>

NextFaq == FaqStoreMemory

SpecFaq == InitFaq /\ [][NextFaq]_vars

\* the records a call has just written: new ids, one of the given type with
\* the message and the response, and with it a faq_entry when entry is set
WroteMemory(memory_type, entry) ==
    /\ last.replaced = {}
    /\ last.upserted \subseteq DOMAIN index
    /\ Cardinality(last.upserted) = IF entry THEN 2 ELSE 1
    /\ \E i \in last.upserted :
           /\ index[i].type = memory_type
           /\ index[i].message = last.args.message
           /\ index[i].response = last.args.response
    /\ entry => \E i \in last.upserted :
           /\ index[i].type = "faq_entry"
           /\ index[i].answer = last.args.response
           /\ index[i].question # <<>>

HasQuestionMark(message) == \E i \in 1..Len(message) : message[i] = "?"

\* C6: for a message with a question mark, store_memory with type faq adds
\* two records (faq with message/response, faq_entry with question/answer)
\* and store_memory with type interaction adds one
C6_FaqWritesTwo ==
    /\ last.op = "store_memory"
    /\ last.status = "ok"
    /\ HasQuestionMark(last.args.message)
    => /\ last.args.memory_type = "faq" => WroteMemory("faq", TRUE)
       /\ last.args.memory_type = "interaction" => WroteMemory("interaction", FALSE)

\* a faq call and an interaction call for the same question have returned
C6_Witness ==
    /\ last.op = "store_memory"
    /\ last.status = "ok"
    /\ last.args.memory_type = "interaction"
    /\ HasQuestionMark(last.args.message)
    /\ Cardinality(DOMAIN index) = 3
    /\ \E i \in DOMAIN index :
           index[i].type = "faq_entry" /\ index[i].question # last.args.message

\* C7 as stated: every store_memory call with type faq writes two records
C7_FaqAlwaysTwo ==
    /\ last.op = "store_memory"
    /\ last.status = "ok"
    /\ last.args.memory_type = "faq"
    => WroteMemory("faq", TRUE)

\* a message in which extract_question finds a question: a question mark,
\* or a lead-in ("tell me about", "explain", "describe") and two words
HoldsQuestion(message) ==
    \/ HasQuestionMark(message)
    \/ \E i \in 1..(Len(message) - 2) :
           /\ message[i] = "explain"
           /\ message[i + 1] \in Words
           /\ message[i + 2] \in Words

\* C7, amended: a store_memory call with type faq writes the faq record and
\* a faq_entry keyed by the question extracted when the message holds a
\* question, and the faq record alone when it holds none
C7_FaqTwoWithQuestion ==
    /\ last.op = "store_memory"
    /\ last.status = "ok"
    /\ last.args.memory_type = "faq"
    => IF HoldsQuestion(last.args.message)
       THEN /\ WroteMemory("faq", TRUE)
            /\ \E i \in last.upserted :
                   /\ index[i].type = "faq_entry"
                   /\ index[i].question = extract_question(last.args.message)
       ELSE WroteMemory("faq", FALSE)

\* a faq call for a lead-in without question mark has written two records
C7_Witness ==
    /\ last.op = "store_memory"
    /\ last.status = "ok"
    /\ last.args.memory_type = "faq"
    /\ ~HasQuestionMark(last.args.message)
    /\ HoldsQuestion(last.args.message)
    /\ Cardinality(last.upserted) = 2


\* ------------------------------------- a user with many preferences
\* the store after u1 has stored a value under each of n keys and u2 has
\* stored another value under the first key
PreferenceStore(n) ==
    [i \in {<<"u1", "pref", j>> : j \in 1..n} \cup {<<"u2", "pref", n + 1>>} |->
        IF i[1] = "u1"
        THEN PreferenceMetadata("u1", KeyNames[i[3]], "morning", 1)
        ELSE PreferenceMetadata("u2", KeyNames[1], "evening", 1)]

InitPrefs ==
    /\ \E n \in 0..MaxPrefKeys :
          /\ index = PreferenceStore(n)
          /\ uuids = n + 1
          /\ latest = [p \in Users \X {KeyNames[i] : i \in DOMAIN KeyNames} |->
                          IF p[1] = "u1" /\ \E j \in 1..n : KeyNames[j] = p[2]
                          THEN "morning"
                          ELSE IF p = <<"u2", KeyNames[1]>> THEN "evening" ELSE None]
    /\ clock = 1
    /\ last = NoCall
    /\ WorkerInit
    /\ said = <<>>
    /\ pm = NoFrame
    /\ chat = "prompt"
    /\ AuxInit

PrefsStoreUserPreference ==
    /\ \E user_id \in Users, key \in PreferenceKeys, value \in PreferenceValues :
           StoreUserPreference(user_id, key, value, FALSE)
    /\ UNCHANGED <<workerVars, chatVars, auxVars>>

PrefsGetUserPreferences ==
    /\ \E user_id \in Users : GetUserPreferences(user_id)
    /\ UNCHANGED <<workerVars, chatVars, auxVars>>

NextPrefs == PrefsStoreUserPreference \/ PrefsGetUserPreferences

SpecPrefs == InitPrefs /\ [][NextPrefs]_vars

\* the preference records of a user, whatever their key
PreferencesOf(user_id) ==
    {i \in DOMAIN index : /\ index[i].user_id = user_id
                          /\ index[i].type = "preference"}

\* C8: the dict get_user_preferences returns has at most 10 keys, and each
\* key maps to the value of one of that user's preference records of that key
C8_PreferencesOfUser ==
    last.op = "get_user_preferences" /\ last.status = "ok"
    => /\ Cardinality(DOMAIN last.ret) <= 10
       /\ \A k \in DOMAIN last.ret :
              \E i \in PreferencesOf(last.user_id) :
                  /\ index[i].preference_key = k
                  /\ index[i].preference_value = last.ret[k]

\* a user with more than 10 preference records has been given 10 keys, while
\* another user holds another value under one of them
C8_Witness ==
    /\ last.op = "get_user_preferences"
    /\ last.status = "ok"
    /\ Cardinality(PreferencesOf(last.user_id)) > 10
    /\ Cardinality(DOMAIN last.ret) = 10
    /\ \E k \in DOMAIN last.ret : \E i \in DOMAIN index :
           /\ index[i].user_id # last.user_id
           /\ index[i].preference_key = k
           /\ index[i].preference_value # last.ret[k]


\* ------------------------------------------------------ analyze_message
\* a token of each list of patterns stands for the list
BookingPatterns == {"book"}
PricingPatterns == {"price"}
ServicePatterns == {"massage", "spa"}
PolicyPatterns == {"cancel"}

Mentions(message, words) == \E i \in 1..Len(message) : message[i] \in words

Intents(message) ==
    (IF Mentions(message, BookingPatterns) THEN {"booking"} ELSE {})
        \cup (IF Mentions(message, PricingPatterns) THEN {"pricing"} ELSE {})
        \cup (IF Mentions(message, ServicePatterns) THEN {"service_info"} ELSE {})
        \cup (IF Mentions(message, PolicyPatterns) THEN {"policy"} ELSE {})

\* the names of the services table the message holds, in table order
RECURSIVE ServiceEntities(_, _)
ServiceEntities(message, services) ==
    IF services = <<>> THEN <<>>
    ELSE (IF Mentions(message, {Head(services)}) THEN <<Head(services)>> ELSE <<>>)
             \o ServiceEntities(message, Tail(services))

\* ------------------------------------------------------ process_message
ChatUser == "u1"

IdentityMessages == {<<"who", "am", "i">>, <<"who", "am", "i", "?">>}

\* what is typed at the prompt
ChatMessages ==
    {<<"who", "am", "i">>, <<"hello">>, <<"price", "?">>, <<"book", "massage">>,
     <<"prefer", "morning">>}

IdentityResponse == "You are user u1"
InterestResponse(service) == "User showed interest in " \o service
Apology == "I'm sorry, but I'm having trouble generating a response right now."
\* handle_booking_with_agno returns a string, which may be empty
BookingResponses == {"", "Your massage is confirmed", "Please tell me which service"}

Returned(frame, kind, response) ==
    [frame EXCEPT !.pc = "returned", !.ret = [kind |-> kind, response |-> response]]

\* an exception leaves process_message, and chat() with it
Raised == pm' = [pm EXCEPT !.pc = "raised"] /\ chat' = "crashed"

\* line 1046
PmAnalyze ==
    /\ pm.pc = "analyze"
    /\ \E services \in ServiceTables :
          pm' = [pm EXCEPT
                    !.pc = IF said \in IdentityMessages THEN "identity" ELSE "interests",
                    !.intents = Intents(said),
                    !.service_entities = ServiceEntities(said, services),
                    !.todo = ServiceEntities(said, services)]
    /\ UNCHANGED <<storeVars, workerVars, said, chat, auxVars>>

\* lines 1053-1068; raises: "read" (a query or an embedding of 1054-1055
\* fails), "first" (store_memory fails)
PmIdentity ==
    /\ pm.pc = "identity"
    /\ \E raises \in {"no", "read", "first"} :
          IF raises = "read"
          THEN Raised /\ UNCHANGED storeVars
          ELSE /\ StoreMemory(ChatUser, said, IdentityResponse,
                              MEMORY_TYPES.INTERACTION, NoMetadata, raises)
               /\ IF raises = "no"
                  THEN pm' = Returned(pm, "str", IdentityResponse) /\ UNCHANGED chat
                  ELSE Raised
    /\ UNCHANGED <<workerVars, said, auxVars>>

\* lines 1071-1078, one service a step
PmInterests ==
    /\ pm.pc = "interests"
    /\ IF pm.todo = <<>>
       THEN pm' = [pm EXCEPT !.pc = "recall"] /\ UNCHANGED <<storeVars, chat>>
       ELSE \E raises \in {"no", "first"} :
               /\ StoreMemory(ChatUser, said, InterestResponse(Head(pm.todo)),
                              MEMORY_TYPES.SERVICE_INTEREST,
                              [service_name |-> PyValue("str", Head(pm.todo))], raises)
               /\ IF raises = "no"
                  THEN pm' = [pm EXCEPT !.todo = Tail(pm.todo)] /\ UNCHANGED chat
                  ELSE Raised
    /\ UNCHANGED <<workerVars, said, auxVars>>

\* lines 1081-1106: the four reads succeed, or one of them fails
PmRecall ==
    /\ pm.pc = "recall"
    /\ \E raises \in BOOLEAN :
          IF raises THEN Raised
          ELSE pm' = [pm EXCEPT !.pc = "business"] /\ UNCHANGED chat
    /\ UNCHANGED <<storeVars, workerVars, said, auxVars>>

\* lines 1109-1224; agent: "reply" (print_response gave a text without
\* "error"), "failed" (no agent, an exception, no text or a text with "error")
PmBusiness ==
    /\ pm.pc = "business"
    /\ IF pm.intents \cap {"pricing", "service_info"} # {}
       THEN \E agent \in {"reply", "failed"} :
               pm' = IF agent = "reply"
                     THEN Returned(pm, "dict", "Our services and prices")
                     ELSE [pm EXCEPT !.pc = "generate"]
       ELSE pm' = [pm EXCEPT !.pc = "generate"]
    /\ UNCHANGED <<storeVars, workerVars, said, chat, auxVars>>

\* lines 1226-1246
PmGenerate ==
    /\ pm.pc = "generate"
    \* generate_content returns a text; the apology is handled as any other
    /\ \E response_text \in {"reply"} :
          pm' = [pm EXCEPT
                    !.pc = IF "booking" \in pm.intents \/ Mentions(said, {"book"})
                           THEN "booking" ELSE "store",
                    !.response_text = response_text]
    /\ UNCHANGED <<storeVars, workerVars, said, chat, auxVars>>

\* lines 1252-1287
PmBooking ==
    /\ pm.pc = "booking"
    /\ \E booking_response \in BookingResponses :
          IF booking_response = ""
          THEN pm' = [pm EXCEPT !.pc = "store"] /\ UNCHANGED <<storeVars, chat>>
          ELSE \E raises \in {"no", "first"} :
                  /\ StoreMemory(ChatUser, said, booking_response, MEMORY_TYPES.BOOKING,
                         [service |-> IF pm.service_entities # <<>>
                                      THEN PyValue("str", Head(pm.service_entities))
                                      ELSE PyValue("none", None),
                          date |-> PyValue("none", None),
                          time |-> PyValue("none", None)], raises)
                  /\ IF raises = "no"
                     THEN pm' = Returned(pm, "str", booking_response) /\ UNCHANGED chat
                     ELSE Raised
    /\ UNCHANGED <<workerVars, said, auxVars>>

\* lines 1290-1295; booking_request is False whenever these lines are reached
PmStore ==
    /\ pm.pc = "store"
    /\ \E raises \in {"no", "first", "faq_entry"} :
          /\ StoreMemory(ChatUser, said, pm.response_text,
                 IF /\ extract_question(said) # <<>>
                    /\ pm.intents \cap {"pricing", "service_info", "policy", "booking"} # {}
                 THEN MEMORY_TYPES.FAQ ELSE MEMORY_TYPES.INTERACTION,
                 NoMetadata, raises)
          /\ IF raises = "no"
             THEN pm' = [pm EXCEPT !.pc = "spawn"] /\ UNCHANGED chat
             ELSE Raised
    /\ UNCHANGED <<workerVars, said, auxVars>>

\* lines 1317-1319
PmSpawn ==
    /\ pm.pc = "spawn"
    /\ \E services \in ServiceTables :
          \* the threads are alike: the new one takes the first free place
          LET free == {t \in WorkerIds : workers[t].pc \in {"idle", "done", "failed"}}
          IN  free # {} /\ Spawn(CHOOSE t \in free : TRUE, ChatUser, said, services)
    /\ pm' = Returned(pm, "str", pm.response_text)
    /\ UNCHANGED <<said, chat, auxVars>>

\* ----------------------------------------------------------------- chat
ChatInput ==
    /\ chat = "prompt"
    /\ \E message \in ChatMessages : said' = message
    /\ pm' = [NoFrame EXCEPT !.pc = "analyze", !.start = uuids]
    /\ chat' = "handling"
    /\ UNCHANGED <<storeVars, workerVars, auxVars>>

\* "exit", "quit", "bye", or Ctrl-C at the prompt
ChatExit ==
    /\ chat = "prompt"
    /\ chat' = "ended"
    /\ UNCHANGED <<storeVars, workerVars, said, pm, auxVars>>

ChatPrint ==
    /\ chat = "handling"
    /\ pm.pc = "returned"
    /\ chat' = "prompt"
    /\ pm' = [pm EXCEPT !.pc = "printed"]
    /\ UNCHANGED <<storeVars, workerVars, said, auxVars>>

MsgQuery == (\E t \in WorkerIds : WorkerQuery(t)) /\ UNCHANGED <<chatVars, auxVars>>

MsgUpsert == (\E t \in WorkerIds : WorkerUpsert(t)) /\ UNCHANGED <<chatVars, auxVars>>

MsgFail == (\E t \in WorkerIds : WorkerFail(t)) /\ UNCHANGED <<chatVars, auxVars>>

NextMsg ==
    \/ ChatInput
    \/ ChatExit
    \/ ChatPrint
    \/ PmAnalyze
    \/ PmIdentity
    \/ PmInterests
    \/ PmRecall
    \/ PmBusiness
    \/ PmGenerate
    \/ PmBooking
    \/ PmStore
    \/ PmSpawn
    \/ MsgQuery
    \/ MsgUpsert
    \/ MsgFail

SpecMsg == Init /\ [][NextMsg]_vars

\* the records written since process_message was entered
WrittenByCall == {i \in DOMAIN index : i[3] > pm.start}

\* C9: when process_message returns, a record written by the call holds
\* the user, the message and the response returned
C9_ReturnStoresInteraction ==
    pm.pc = "returned"
    => \E i \in WrittenByCall :
           /\ index[i].user_id = ChatUser
           /\ "message" \in DOMAIN index[i]
           /\ index[i].message = said
           /\ index[i].response = pm.ret.response

\* C10: no failure of the store, the database, the agent or the language
\* models ends the loop of chat()
C10_LoopSurvives == chat # "crashed"


\* ------------------------------------------ generate_content, called
GrokOutcomes == {"absent", "failed", "empty", "text"}

\* the attempts at which Gemini answers: none, one of the nine, or one and
\* the next
GeminiPatterns ==
    {{}} \cup {{a} : a \in 1..(max_model_retries * 3)}
         \cup {{a, a + 1} : a \in 1..(max_model_retries * 3 - 1)}

InitGen ==
    /\ StoreInit
    /\ WorkerInit
    /\ said = <<>>
    /\ pm = NoFrame
    /\ chat = "prompt"
    /\ gemini \in {ImportGemini(keys) : keys \in 0..MaxKeys}
    /\ result = NoResult

GenGenerateContent ==
    /\ \E grok \in GrokOutcomes, succeeds \in GeminiPatterns :
          \E r \in {generate_content(gemini, grok, succeeds)} :
              /\ gemini' = r.g
              /\ result' = [op |-> "generate_content", grok |-> grok,
                            succeeds |-> succeeds, status |-> r.status,
                            provider |-> r.provider, attempt |-> r.attempt,
                            tried |-> r.tried, grok_tried |-> r.grok_tried,
                            log |-> r.log, before |-> gemini]
    /\ UNCHANGED <<storeVars, workerVars, chatVars>>

\* the agents whose construction fails: none, the first, all
BrokenPatterns == {{}, {1}, 1..(max_model_retries * 3 + 1)}

\* what the calls of print_response give, in turn
ReplyPatterns ==
    {<<"text", "text">>, <<"none", "text">>, <<"failed", "text">>,
     <<"none", "failed">>, <<"failed", "none">>}

\* the calls of handle_booking_with_agno: what is not reached is not varied
BookingCalls ==
    {[tools |-> FALSE, grok |-> "absent", broken |-> {}, replies |-> <<"text", "text">>]}
    \cup {[tools |-> TRUE, grok |-> "text", broken |-> b, replies |-> <<"text", "text">>] :
             b \in BrokenPatterns}
    \cup {[tools |-> TRUE, grok |-> k, broken |-> b, replies |-> r] :
             k \in GrokOutcomes \ {"text"}, b \in BrokenPatterns, r \in ReplyPatterns}

\* get_gemini_model, rotate_gemini_key and try_next_model called on their own
GenGeminiModel ==
    /\ \E op \in {"get_gemini_model", "rotate_gemini_key", "try_next_model"} :
          \E r \in {CASE op = "get_gemini_model" -> get_gemini_model(gemini)
                     [] op = "rotate_gemini_key" -> rotate_gemini_key(gemini)
                     [] OTHER -> try_next_model(gemini)} :
              /\ gemini' = r.g
              /\ result' = [op |-> op, status |-> IF r.ok THEN "ok" ELSE "raised",
                            oob |-> ~r.ok, before |-> gemini]
    /\ UNCHANGED <<storeVars, workerVars, chatVars>>

GenAgnoAgentWithRetry ==
    /\ \E broken \in BrokenPatterns :
          \E r \in {get_agno_agent_with_retry(gemini, broken)} :
              /\ gemini' = r.g
              /\ result' = [op |-> "get_agno_agent_with_retry", broken |-> broken,
                            status |-> r.status, tried |-> r.tried, oob |-> r.oob,
                            before |-> gemini]
    /\ UNCHANGED <<storeVars, workerVars, chatVars>>

GenHandleBooking ==
    /\ \E c \in BookingCalls :
          \E r \in {handle_booking_with_agno(gemini, c.tools, c.grok, c.broken, c.replies)} :
              /\ gemini' = r.g
              /\ result' = [op |-> "handle_booking_with_agno", tools |-> c.tools,
                            grok |-> c.grok, broken |-> c.broken, replies |-> c.replies,
                            ret |-> r.ret, grok_tried |-> r.grok_tried,
                            agent_tried |-> r.agent_tried, oob |-> r.oob,
                            before |-> gemini]
    /\ UNCHANGED <<storeVars, workerVars, chatVars>>

NextGen ==
    \/ GenGenerateContent
    \/ GenGeminiModel
    \/ GenAgnoAgentWithRetry
    \/ GenHandleBooking

SpecGen == InitGen /\ [][NextGen]_vars

\* the Gemini attempts of one call that answer, among those the call can make
GeminiHits ==
    {a \in result.succeeds : a <= 3 * Min(3, gemini.keys)}

\* C11: generate_content does not raise; it returns Grok's text when Grok
\* answers with a text, else the text of the first Gemini attempt that
\* answers, and the apology exactly when no provider call answers
C11_GenerateContentFallback ==
    result.op = "generate_content"
    => /\ result.status \in {"text", "apology"}
       /\ result.grok = "text" => result.status = "text" /\ result.provider = "grok"
       /\ result.grok # "text" /\ GeminiHits = {} => result.status = "apology"
       /\ result.grok # "text" /\ GeminiHits # {} =>
              /\ result.status = "text"
              /\ result.provider = "gemini"
              /\ result.attempt \in GeminiHits
              /\ \A a \in GeminiHits : result.attempt <= a

\* Grok failed and Gemini answered only after the switch to the next model
C11_Witness ==
    /\ result.op = "generate_content"
    /\ result.grok = "failed"
    /\ gemini.keys >= 2
    /\ result.status = "text"
    /\ result.attempt > Min(3, gemini.keys)


\* ------------------------------------------------- the store only grows
\* a store_memory call has just ended
StoreMemoryStep == last' # last /\ last'.op = "store_memory"

\* C12: no step removes a record id; a store_memory call writes under ids
\* that were not in the store, one id, or two when it writes the faq_entry
C12_StoreOnlyGrows ==
    [][/\ DOMAIN index \subseteq DOMAIN index'
       /\ StoreMemoryStep =>
              /\ last'.upserted \cap DOMAIN index = {}
              /\ DOMAIN index' = DOMAIN index \cup last'.upserted
              /\ last'.status = "ok" =>
                     Cardinality(DOMAIN index') = Cardinality(DOMAIN index) +
                         (IF \E i \in last'.upserted : index'[i].type = "faq_entry"
                          THEN 2 ELSE 1)]_vars

\* process_message has written a faq record and its faq_entry next to the
\* record of an earlier message, after a preference thread has run
C12_Witness ==
    /\ last.op = "store_memory"
    /\ last.status = "ok"
    /\ Cardinality(last.upserted) = 2
    /\ Cardinality(DOMAIN index) = 3
    /\ spawned > 0


\* ------------------------------------------- get_available_time_slots
\* times of day are minutes since midnight
SLOT_MINUTES == 30
LEAD_MINUTES == 240

\* strftime("%I:%M %p") of a time of day, and strptime of the label
TimeSlotLabel(t) ==
    <<IF (t \div 60) % 12 = 0 THEN 12 ELSE (t \div 60) % 12, t % 60,
      IF t \div 60 < 12 THEN "AM" ELSE "PM">>

ParseTimeSlot(label) ==
    [hour |-> (label[1] % 12) + (IF label[3] = "PM" THEN 12 ELSE 0),
     minute |-> label[2]]

\* strptime(strftime("%H:%M:%S")) of the current time
ParseCurrentTime(now) == [hour |-> now.hour, minute |-> now.minute, second |-> now.second]

\* line 555
TimeDiff(label, now) ==
    (ParseTimeSlot(label).hour - ParseCurrentTime(now).hour) * 60
        + (ParseTimeSlot(label).minute - ParseCurrentTime(now).minute)

\* as StillOpen, with the closing time taken as a slot
StillOpen_AtClose(current, end) == current <= end

\* the test of the while loop, line 541
StillOpen(current, end) == current < end

\* the test of line 556
LeadKept(label, now) == TimeDiff(label, now) >= LEAD_MINUTES

\* the loop of lines 539-561 for one day
RECURSIVE DaySlots(_, _, _, _, _)
DaySlots(current, end, booked_slots, is_today, now) ==
    IF ~StillOpen(current, end) THEN <<>>
    ELSE (IF /\ TimeSlotLabel(current) \notin booked_slots
             /\ is_today => LeadKept(TimeSlotLabel(current), now)
          THEN <<TimeSlotLabel(current)>> ELSE <<>>)
             \o DaySlots(current + SLOT_MINUTES, end, booked_slots, is_today, now)

\* hours tables: weekday (0 is Monday) to opening and closing time; a day
\* without entry is closed
SPA_BUSINESS_hours ==
    [d \in 0..6 |-> CASE d \in 0..3 -> <<540, 1200>>
                      [] d = 4 -> <<540, 1260>>
                      [] d = 5 -> <<480, 1260>>
                      [] d = 6 -> <<600, 1080>>]

NineToFive == [d \in 0..5 |-> <<540, 1020>>]

\* db: "down" (no connection), "no_table", "error" (a query raises), "ok"
get_available_time_slots(days_ahead, now, hours, booked_slots, db) ==
    IF db # "ok" THEN [i \in {} |-> <<>>]
    ELSE LET open == {i \in 0..(days_ahead - 1) : (now.weekday + i) % 7 \in DOMAIN hours}
             slots(i) == DaySlots(hours[(now.weekday + i) % 7][1],
                                  hours[(now.weekday + i) % 7][2],
                                  booked_slots, i = 0, now)
         IN  [i \in {j \in open : slots(j) # <<>>} |-> slots(i)]

\* the moments at which the function is called
Moments ==
    [hour : 0..23, minute : {0, 1, 29, 30, 59}, second : {0, 1, 59}, weekday : {0, 4, 6}]

InitSlots ==
    /\ StoreInit
    /\ WorkerInit
    /\ said = <<>>
    /\ pm = NoFrame
    /\ chat = "prompt"
    /\ gemini = ImportGemini(1)
    /\ result \in [op : {"input"}, now : Moments,
                   hours : {SPA_BUSINESS_hours, NineToFive},
                   booked_slots : {{}, {TimeSlotLabel(840)}},
                   db : {"ok", "down", "no_table", "error"}]

SlotsCall ==
    /\ result.op = "input"
    /\ \E days_ahead \in 1..MaxDays :
          result' = [op |-> "get_available_time_slots", days_ahead |-> days_ahead,
                     now |-> result.now, hours |-> result.hours,
                     booked_slots |-> result.booked_slots, db |-> result.db,
                     ret |-> get_available_time_slots(days_ahead, result.now,
                                 result.hours, result.booked_slots, result.db)]
    /\ UNCHANGED <<storeVars, workerVars, chatVars, gemini>>

\* get_services_from_db: the rows of the services table, or [] when a query
\* fails; when psycopg2.connect fails the handler reads the local variable
\* connection, which is not bound, and UnboundLocalError leaves the function
get_services_from_db(db, services) ==
    CASE db = "ok" -> [status |-> "ok", ret |-> services]
      [] db = "down" -> [status |-> "raised", ret |-> <<>>]
      [] OTHER -> [status |-> "ok", ret |-> <<>>]

ServicesCall ==
    /\ result.op = "input"
    /\ \E services \in ServiceTables :
          result' = [op |-> "get_services_from_db", db |-> result.db,
                     now |-> result.now, hours |-> result.hours,
                     booked_slots |-> result.booked_slots,
                     status |-> get_services_from_db(result.db, services).status,
                     ret |-> get_services_from_db(result.db, services).ret]
    /\ UNCHANGED <<storeVars, workerVars, chatVars, gemini>>

NextSlots == SlotsCall \/ ServicesCall

SpecSlots == InitSlots /\ [][NextSlots]_vars

\* the time of day a label names
MinuteOfLabel(label) == ParseTimeSlot(label).hour * 60 + ParseTimeSlot(label).minute

\* the hours of the day i days after the call, when it is open
HoursOfDay(i) == result.hours[(result.now.weekday + i) % 7]

\* C14: for an open day after today, without booked slots, the slots
\* offered are open, open+30, ... in this order, up to the last one before
\* the closing time; for 09:00 AM - 05:00 PM these are 16 slots from
\* 09:00 AM to 04:30 PM
C14_SlotsUntilClose ==
    /\ result.op = "get_available_time_slots"
    /\ result.db = "ok"
    /\ result.booked_slots = {}
    => \A i \in 1..(result.days_ahead - 1) :
           (result.now.weekday + i) % 7 \in DOMAIN result.hours =>
               /\ i \in DOMAIN result.ret
               /\ \A k \in 1..Len(result.ret[i]) :
                      /\ MinuteOfLabel(result.ret[i][k]) =
                             HoursOfDay(i)[1] + SLOT_MINUTES * (k - 1)
                      /\ MinuteOfLabel(result.ret[i][k]) < HoursOfDay(i)[2]
               /\ HoursOfDay(i)[1] + SLOT_MINUTES * Len(result.ret[i]) >= HoursOfDay(i)[2]
               /\ HoursOfDay(i) = <<540, 1020>> =>
                      /\ Len(result.ret[i]) = 16
                      /\ result.ret[i][1] = <<9, 0, "AM">>
                      /\ result.ret[i][16] = <<4, 30, "PM">>
                      /\ \A k \in 1..16 : result.ret[i][k] # <<5, 0, "PM">>

\* the slots of tomorrow, open 09:00 AM - 05:00 PM, have been computed
C14_Witness ==
    /\ result.op = "get_available_time_slots"
    /\ result.db = "ok"
    /\ result.booked_slots = {}
    /\ result.days_ahead = 2
    /\ result.hours = NineToFive
    /\ 1 \in DOMAIN result.ret
    /\ Len(result.ret[1]) = 16

\* C15: a slot of today is offered only if it starts at least 240 minutes
\* after the current time, seconds included
C15_LeadTimeKept ==
    /\ result.op = "get_available_time_slots"
    /\ 0 \in DOMAIN result.ret
    => \A k \in 1..Len(result.ret[0]) :
           MinuteOfLabel(result.ret[0][k]) * 60 -
               (result.now.hour * 3600 + result.now.minute * 60 + result.now.second)
                   >= LEAD_MINUTES * 60


\* ------------------------------------------------- context assembly
\* as Reversed, without the reversal
Reversed_Same(s) == s

\* list(reversed(history))
Reversed(s) == [i \in 1..Len(s) |-> s[Len(s) + 1 - i]]

\* the lines format_conversation_context joins with "\n"
RECURSIVE ContextLines(_)
ContextLines(history) ==
    IF history = <<>> THEN <<>>
    ELSE <<[speaker |-> "User", text |-> Head(history).metadata.message],
           [speaker |-> "Assistant", text |-> Head(history).metadata.response]>>
             \o ContextLines(Tail(history))

format_conversation_context(history) == ContextLines(Reversed(history))

\* metadata.get('message', metadata.get('question', '')) and
\* metadata.get('response', metadata.get('answer', '')); '' is <<>> or ""
UserText(metadata) ==
    IF "message" \in DOMAIN metadata THEN metadata.message
    ELSE IF "question" \in DOMAIN metadata THEN metadata.question
    ELSE <<>>

BotText(metadata) ==
    IF "response" \in DOMAIN metadata THEN metadata.response
    ELSE IF "answer" \in DOMAIN metadata THEN metadata.answer
    ELSE ""

Usable(m) == UserText(m.metadata) # <<>> /\ BotText(m.metadata) # ""

\* context_lines of lines 1088-1094
RECURSIVE RelatedMemories(_)
RelatedMemories(memories) ==
    IF memories = <<>> THEN <<>>
    ELSE (IF Usable(Head(memories))
          THEN <<[user_text |-> UserText(Head(memories).metadata),
                  bot_text |-> BotText(Head(memories).metadata)]>>
          ELSE <<>>) \o RelatedMemories(Tail(memories))

\* semantic_context of lines 1086-1095: the blocks joined, the placeholder,
\* or the empty string (no block, no placeholder)
SemanticContext(memories) ==
    IF memories = <<>> THEN [placeholder |-> FALSE, blocks |-> <<>>]
    ELSE [placeholder |-> RelatedMemories(memories) = <<>>,
          blocks |-> RelatedMemories(memories)]

CtxStoreMemory ==
    /\ \E user_id \in Readers,
          given \in {[message |-> <<"hello">>, memory_type |-> MEMORY_TYPES.INTERACTION],
                     [message |-> <<>>, memory_type |-> MEMORY_TYPES.INTERACTION],
                     [message |-> <<"spa", "?">>, memory_type |-> MEMORY_TYPES.FAQ]} :
           StoreMemory(user_id, given.message, "reply", given.memory_type, NoMetadata, "no")
    /\ UNCHANGED <<workerVars, chatVars, auxVars>>

CtxTick == Tick /\ UNCHANGED <<workerVars, chatVars, auxVars>>

\* lines 1081-1082
CtxConversation ==
    /\ \E limit \in {1, 5} : GetConversationHistory("u1", limit)
    /\ result' = [op |-> "format_conversation_context", given |-> last'.ret,
                  ret |-> format_conversation_context(last'.ret)]
    /\ UNCHANGED <<workerVars, chatVars, gemini>>

\* lines 1085-1095
CtxSemantic ==
    /\ RecallSemanticMemory("u1", 3, NoTypes)
    /\ result' = [op |-> "semantic_context", given |-> last'.ret,
                  ret |-> SemanticContext(last'.ret)]
    /\ UNCHANGED <<workerVars, chatVars, gemini>>

NextCtx ==
    \/ CtxStoreMemory
    \/ CtxTick
    \/ CtxConversation
    \/ CtxSemantic

SpecCtx == Init /\ [][NextCtx]_vars

\* C16: the context of a history has, for each record, one User line with
\* its message directly followed by the Assistant line with its response,
\* and the pair of an older record stands before that of a newer one
C16_ContextOldestFirst ==
    result.op = "format_conversation_context"
    => /\ Len(result.ret) = 2 * Len(result.given)
       /\ \E p \in Orders(DOMAIN result.given) :
              /\ \A k \in DOMAIN p :
                     /\ result.ret[2 * k - 1] =
                            [speaker |-> "User",
                             text |-> result.given[p[k]].metadata.message]
                     /\ result.ret[2 * k] =
                            [speaker |-> "Assistant",
                             text |-> result.given[p[k]].metadata.response]
              /\ \A k, l \in DOMAIN p :
                     TimestampOf(result.given[p[k]]) < TimestampOf(result.given[p[l]])
                         => k < l

\* a history of two records of different seconds and messages was formatted
C16_Witness ==
    /\ result.op = "format_conversation_context"
    /\ Len(result.given) >= 2
    /\ TimestampOf(result.given[1]) # TimestampOf(result.given[2])
    /\ result.given[1].metadata.message # result.given[2].metadata.message

\* C17: the semantic context has a block for each match with a user text
\* and a bot text and for no other, and it is the placeholder whenever no
\* match has both texts, also when there is no match
C17_PlaceholderWithoutUsable ==
    result.op = "semantic_context"
    => /\ Len(result.ret.blocks) =
              Cardinality({i \in DOMAIN result.given : Usable(result.given[i])})
       /\ (\A i \in DOMAIN result.given : ~Usable(result.given[i]))
              => result.ret.placeholder


\* C19: when the connection or a query fails, get_services_from_db returns
\* the empty list and does not raise
C19_ServicesFallback ==
    result.op = "get_services_from_db" /\ result.db # "ok"
    => result.status = "ok" /\ result.ret = <<>>


\* C20: recall_semantic_memory returns at most top_k matches, those the
\* store answered with, all of the user, and when memory_types is given, as
\* one type or as a list, also an empty one, all of a type in memory_types
C20_RecallFiltered ==
    last.op = "recall_semantic_memory" /\ last.status = "ok"
    => /\ Len(last.ret) <= last.args.top_k
       /\ {last.ret[i] : i \in DOMAIN last.ret} = last.matches
       /\ Len(last.ret) = Cardinality(last.matches)
       /\ \A i \in DOMAIN last.ret : last.ret[i].metadata.user_id = last.user_id
       /\ last.args.memory_types.kind # "none" =>
              \A i \in DOMAIN last.ret :
                  last.ret[i].metadata.type \in last.args.memory_types.val


\* the interaction records of the user that the store holds
InteractionsOf(user_id) ==
    {Match(index, i) : i \in {j \in DOMAIN index :
        Passes(index[j], HistoryFilter(user_id))}}

\* C21: get_conversation_history(user_id, limit) returns the limit records
\* of greatest timestamp among all interaction records of the user, however
\* many there are and in whatever order the store lists its candidates: as
\* many as the limit allows, and none older than a record left out
C21_HistoryMostRecent ==
    last.op = "get_conversation_history" /\ last.status = "ok"
    => LET all == InteractionsOf(last.user_id)
           ret == {last.ret[i] : i \in DOMAIN last.ret}
       IN  /\ ret \subseteq all
           /\ Cardinality(ret) = Min(last.args.limit, Cardinality(all))
           /\ \A m \in ret, o \in all \ ret : TimestampOf(m) >= TimestampOf(o)


\* C22: a generate_content call ends, with a text or the apology, after at
\* most one Grok attempt and at most min(3, K) * min(3, M) Gemini attempts,
\* K the number of keys and M the number of models; with no key it makes no
\* Gemini attempt
C22_GenerateContentBounded ==
    result.op = "generate_content"
    => /\ result.status \in {"text", "apology"}
       /\ result.grok_tried <= 1
       /\ result.grok = "absent" => result.grok_tried = 0
       /\ Len(result.log) <= Min(3, gemini.keys) * Min(3, GEMINI_MODELS)
       /\ gemini.keys = 0 => Len(result.log) = 0

\* with three keys every provider call failed: one Grok attempt and nine
\* Gemini attempts were made
C22_Witness ==
    /\ result.op = "generate_content"
    /\ result.grok = "failed"
    /\ gemini.keys = 3
    /\ result.status = "apology"
    /\ result.grok_tried = 1
    /\ Len(result.log) = 9


\* C25: when Grok answers with a text, generate_content returns that text,
\* makes no Gemini attempt and leaves current_key_index and
\* current_model_index as they were; when no Grok key is set it makes no Grok
\* attempt
C25_GrokFirst ==
    result.op = "generate_content"
    => /\ result.grok = "text" =>
              /\ result.status = "text"
              /\ result.provider = "grok"
              /\ result.grok_tried = 1
              /\ Len(result.log) = 0
              /\ gemini = result.before
       /\ result.provider = "gemini" => result.grok # "text"

\* Grok answers in a call made after earlier calls moved both indices
C25_Witness ==
    /\ result.op = "generate_content"
    /\ result.grok = "text"
    /\ result.provider = "grok"
    /\ gemini.key_index > 0
    /\ gemini.model_index > 0


\* C23: when a Gemini attempt of generate_content fails and is not the last
\* key attempt of its round, the next attempt is made with the next key and
\* with current_model_index as it was at the failed attempt
C23_RotationKeepsModel ==
    result.op = "generate_content"
    => \A i \in 1..(Len(result.log) - 1) :
           result.log[i].key_retry < Min(3, gemini.keys) - 1
           => /\ result.log[i + 1].named = result.log[i].named
              /\ result.log[i + 1].key_index # result.log[i].key_index


\* C26: every Gemini attempt of generate_content runs on the model
\* GEMINI_MODELS[current_model_index] of the moment of the attempt, the
\* first attempt of a call after earlier calls moved the indices included
C26_AttemptOnNamedModel ==
    result.op = "generate_content"
    => \A i \in 1..Len(result.log) : result.log[i].used = result.log[i].named


\* the calls that index a key or a model
GeminiOps == {"get_gemini_model", "rotate_gemini_key", "try_next_model",
              "get_agno_agent_with_retry", "handle_booking_with_agno"}

\* C24: with at least one key, after any sequence of calls of
\* get_gemini_model, rotate_gemini_key, try_next_model, generate_content,
\* get_agno_agent_with_retry and handle_booking_with_agno both indices are
\* within range, and no call has indexed a key or a model out of range
C24_IndicesInRange ==
    gemini.keys >= 1
    => /\ gemini.key_index \in 0..(gemini.keys - 1)
       /\ gemini.model_index \in 0..(GEMINI_MODELS - 1)
       /\ result.op \in GeminiOps => ~result.oob
       /\ result.op = "generate_content" =>
              /\ result.status # "raised"
              /\ \A i \in 1..Len(result.log) : ~result.log[i].oob

\* the second agent of a booking is made after a rotation past the last key
C24_Witness ==
    /\ result.op = "handle_booking_with_agno"
    /\ gemini.keys = 2
    /\ result.before.key_index = 1
    /\ result.agent_tried = 2
    /\ gemini.key_index = 0


\* C28: handle_booking_with_agno returns a string, the reply of Grok or of
\* the agent or one of the fixed sentences, and never None, after at most
\* one Grok attempt and at most min(2, K) calls of the agent, for every
\* number K of keys, zero included
C28_BookingReturnsString ==
    result.op = "handle_booking_with_agno"
    => /\ result.ret \in BookingReturns \ {"none"}
       /\ result.grok_tried <= 1
       /\ result.agent_tried <= Min(2, gemini.keys)
       /\ result.ret = "reply" => result.agent_tried >= 1
       /\ result.ret = "grok" => result.grok = "text"

\* the agent gave None and then failed: the fixed sentence is returned
C28_Witness ==
    /\ result.op = "handle_booking_with_agno"
    /\ result.grok = "failed"
    /\ result.replies = <<"none", "failed">>
    /\ result.agent_tried = 2
    /\ result.ret = "fallback"


\* "confirmed" or "booked" stands in the reply (line 1269)
Confirmed(response) == response = "Your massage is confirmed"

\* the service of the table whose name stands in the reply (lines 1302-1309)
ServiceBooked(response) ==
    IF response = "Your massage is confirmed" THEN "massage" ELSE None

\* C27: when the reply of the booking agent says the booking is confirmed,
\* process_message stores the interaction or faq memory of the message and
\* after it a booking memory, which carries service_booked when the reply
\* names a service
C27_ConfirmedBookingStored ==
    pm.pc = "returned" /\ pm.ret.kind = "str" /\ Confirmed(pm.ret.response)
    => \E i, j \in WrittenByCall :
           /\ i[3] < j[3]
           /\ index[i].type \in {MEMORY_TYPES.INTERACTION, MEMORY_TYPES.FAQ}
           /\ index[i].message = said
           /\ index[j].type = MEMORY_TYPES.BOOKING
           /\ index[j].message = said
           /\ index[j].response = pm.ret.response
           /\ ServiceBooked(pm.ret.response) # None =>
                  /\ "service_booked" \in DOMAIN index[j]
                  /\ index[j].service_booked = ServiceBooked(pm.ret.response)


\* the ids whose record a step wrote: new ids, and ids whose record differs
Changed == {i \in DOMAIN index' : i \notin DOMAIN index \/ index'[i] # index[i]}

\* C29: a store_user_preference(user_id, key, value) call that runs alone
\* changes at most one record, a preference record of (user_id, key): no
\* record is removed, every other record stays as it was, and the number of
\* records grows by one if (user_id, key) had no record and by none if it had
C29_PreferenceFrame ==
    [][last'.op = "store_user_preference" /\ last'.status = "ok"
       => LET own == PreferenceRecords(last'.user_id, last'.args.key)
          IN  /\ DOMAIN index \subseteq DOMAIN index'
              /\ Cardinality(Changed) <= 1
              /\ \A i \in Changed :
                     /\ i \in DOMAIN index => i \in own
                     /\ index'[i].user_id = last'.user_id
                     /\ index'[i].type = MEMORY_TYPES.PREFERENCE
                     /\ index'[i].preference_key = last'.args.key
              /\ Cardinality(DOMAIN index') =
                     Cardinality(DOMAIN index) + (IF own = {} THEN 1 ELSE 0)]_vars

\* u1 has rewritten a preference while the store holds the preference of u2
\* for the same key and a record of u1 that is no preference of this key
C29_Witness ==
    /\ last.op = "store_user_preference"
    /\ last.status = "ok"
    /\ last.user_id = "u1"
    /\ \E m \in last.replaced : m.metadata.preference_value # last.args.value
    /\ \E i \in DOMAIN index :
           /\ index[i].user_id = "u2"
           /\ index[i].type = MEMORY_TYPES.PREFERENCE
           /\ index[i].preference_key = last.args.key
    /\ \E i \in DOMAIN index :
           /\ index[i].user_id = "u1"
           /\ i \notin PreferenceRecords("u1", last.args.key)


\* ------------------------------------- extra metadata and the partition
\* the mappings passed as additional_metadata: None, and dicts over the keys
\* user_id, type and service
OwnerValues ==
    [user_id |-> {PyValue("str", "u1"), PyValue("str", "u2"), PyValue("none", "None")},
     type |-> {PyValue("str", "interaction"), PyValue("str", "preference")},
     service |-> {PyValue("str", "massage"), PyValue("none", "None")}]

OwnerInputs ==
    {NoMetadata} \cup
    UNION {{f \in [K -> UNION {OwnerValues[k] : k \in K}] :
               \A k \in K : f[k] \in OwnerValues[k]} :
           K \in SUBSET {"user_id", "type", "service"} \ {{}}}

InitOwner ==
    /\ StoreInit
    /\ WorkerInit
    /\ said = <<>>
    /\ pm = NoFrame
    /\ chat = "prompt"
    /\ gemini = ImportGemini(1)
    /\ result \in [op : {"input"}, additional_metadata : OwnerInputs]

OwnerStoreMemory ==
    /\ \E user_id \in Users,
          memory_type \in {MEMORY_TYPES.INTERACTION, MEMORY_TYPES.BOOKING} :
          StoreMemory(user_id, <<"book", "massage">>, "reply", memory_type,
                      result.additional_metadata, "no")
    /\ UNCHANGED <<workerVars, chatVars, auxVars>>

OwnerGetConversationHistory ==
    /\ \E user_id \in Users : GetConversationHistory(user_id, 2)
    /\ UNCHANGED <<workerVars, chatVars, auxVars>>

NextOwner ==
    \/ OwnerStoreMemory
    \/ OwnerGetConversationHistory

SpecOwner == InitOwner /\ [][NextOwner]_vars

\* C30: every record written by store_memory(user_id, message, response,
\* memory_type, additional_metadata) has metadata user_id equal to the
\* user_id argument and type equal to the memory_type argument, whatever
\* keys additional_metadata has
C30_OwnerAndTypeKept ==
    last.op = "store_memory" /\ last.status = "ok"
    => \A i \in last.upserted :
           /\ index[i].user_id = last.user_id
           /\ index[i].type = last.args.memory_type


\* ------------------------------------------------- fire and forget
\* a step of a thread: it queries, upserts or fails
ThreadStep == workers' # workers /\ spawned' = spawned

\* C18: no step of a preference thread changes the frame of process_message
\* (its response included), the chat loop, or a record that is not a
\* preference; process_message has returned while its thread still runs
C18_FireAndForget ==
    [][ThreadStep =>
           /\ pm' = pm
           /\ chat' = chat
           /\ said' = said
           /\ \A i \in DOMAIN index :
                  index[i].type # "preference" =>
                      i \in DOMAIN index' /\ index'[i] = index[i]]_vars

\* the response has been printed and the loop prompts again while one
\* thread has failed and another has not finished
C18_Witness ==
    /\ chat = "prompt"
    /\ pm.pc = "printed"
    /\ \E t \in WorkerIds : workers[t].pc = "failed"
    /\ \E t \in WorkerIds : workers[t].pc \in {"running", "queried"}
    /\ \E i \in DOMAIN index : index[i].type = "interaction"


\* ------------------------------------------ additional_metadata values
\* Python values, each with its kind and the text str() gives for it
MetadataValues ==
    {PyValue("none", "None"), PyValue("str", "massage"), PyValue("str", ""),
     PyValue("int", "3"), PyValue("float", "2.5"), PyValue("bool", "True"),
     PyValue("list_str", "['a', 'b']"), PyValue("list_str", "[]"),
     PyValue("list_mixed", "['a', 1]"), PyValue("dict", "{'a': 1}"),
     PyValue("tuple", "('a',)")}

\* the mappings passed: None, and dicts of up to two keys
MetadataInputs ==
    {NoMetadata} \cup [{"service"} -> MetadataValues]
                 \cup [{"service", "note"} -> MetadataValues]

InitMeta ==
    /\ StoreInit
    /\ WorkerInit
    /\ said = <<>>
    /\ pm = NoFrame
    /\ chat = "prompt"
    /\ gemini = ImportGemini(1)
    /\ result \in [op : {"input"}, additional_metadata : MetadataInputs]

MetaStoreMemory ==
    /\ \E memory_type \in {MEMORY_TYPES.INTERACTION, MEMORY_TYPES.BOOKING} :
          StoreMemory("u1", <<"book", "massage">>, "reply", memory_type,
                      result.additional_metadata, "no")
    /\ UNCHANGED <<workerVars, chatVars, auxVars>>

NextMeta == MetaStoreMemory

SpecMeta == InitMeta /\ [][NextMeta]_vars

\* C13: the record store_memory writes holds, for each key of
\* additional_metadata, "None" for None, the value itself for a string, a
\* number, a boolean or a list of strings, and else the text str() gives
C13_MetadataSanitized ==
    last.op = "store_memory" /\ last.status = "ok"
    => \A i \in last.upserted :
       \A k \in DOMAIN last.args.additional_metadata :
           LET value == last.args.additional_metadata[k]
           IN  /\ k \in DOMAIN index[i]
               /\ index[i][k] =
                      CASE value.kind = "none" -> [kind |-> "str", val |-> "None"]
                        [] value.kind \in {"str", "int", "float", "bool", "list_str"} -> value
                        [] OTHER -> [kind |-> "str", val |-> value.val]

\* a record was written from a mapping with None and with a nested mapping
C13_Witness ==
    /\ last.op = "store_memory"
    /\ last.status = "ok"
    /\ DOMAIN last.args.additional_metadata = {"service", "note"}
    /\ last.args.additional_metadata.service.kind = "none"
    /\ last.args.additional_metadata.note.kind = "dict"
    /\ \E i \in last.upserted : index[i].note = [kind |-> "str", val |-> "{'a': 1}"]

====
